---- MODULE Spec2Model ----
(***************************************************************************)
(* Model of stickyNotes.py: the toolbar (SideToolbarApp) owning the note   *)
(* store and the open-window registry, the note windows                    *)
(* (StickyNoteWindow) holding their record by reference, and the JSON file *)
(* the store is saved to.                                                  *)
(*                                                                         *)
(* Python strings are sequences of one-character strings.  Python dicts    *)
(* that are used as maps (self.notes) are insertion-ordered sequences of   *)
(* [key, ref] entries; the note dicts themselves live in a heap so that    *)
(* the window's note_data and the store's value are the same object.       *)
(***************************************************************************)
EXTENDS Integers, Sequences, FiniteSets, TLC

\* ------------------------------------------------------------------------
\* Bounds of the model
\* ------------------------------------------------------------------------
MaxNotes == 2       \* identifiers uuid4 can hand out in one behaviour
MaxMoves == 1       \* mouse-move events that change a window's geometry
MaxFaults == 1      \* file writes that fail in one behaviour
MaxOps == 3         \* user operations in one behaviour
MaxItems == 2       \* elements of a JSON array read from a file
MaxEvents == 5      \* mouse events a note window receives in one behaviour

\* ------------------------------------------------------------------------
\* Program constants
\* ------------------------------------------------------------------------
PREVIEW_LINES == 5
RESIZE_GRIP_SIZE == 8
TitleBarHeight == 35
ContentMargin == 10
MinimumWidth == 200
MinimumHeight == 150
DefaultX == 100
DefaultY == 100
DefaultWidth == 400
DefaultHeight == 300

NL == "\n"
NewNoteTitle == <<"N", "e", "w", " ", "N", "o", "t", "e">>

\* ------------------------------------------------------------------------
\* str helpers
\* ------------------------------------------------------------------------
IsSpace(c) == c \in {" ", NL}

Max(a, b) == IF a >= b THEN a ELSE b

Min(a, b) == IF a <= b THEN a ELSE b

\* s[:n]
Take(s, n) == SubSeq(s, 1, Min(n, Len(s)))

\* str.split('\n'): always at least one (possibly empty) piece
RECURSIVE SplitAcc(_, _, _)
SplitAcc(s, cur, acc) ==
    IF s = <<>> THEN Append(acc, cur)
    ELSE IF Head(s) = NL THEN SplitAcc(Tail(s), <<>>, Append(acc, cur))
    ELSE SplitAcc(Tail(s), Append(cur, Head(s)), acc)

SplitLines(s) == SplitAcc(s, <<>>, <<>>)

\* "\n".join(lines)
RECURSIVE JoinLines(_)
JoinLines(lines) ==
    IF lines = <<>> THEN <<>>
    ELSE IF Len(lines) = 1 THEN lines[1]
    ELSE lines[1] \o <<NL>> \o JoinLines(Tail(lines))

RECURSIVE LStrip(_)
LStrip(s) ==
    IF s # <<>> /\ IsSpace(Head(s)) THEN LStrip(Tail(s)) ELSE s

RECURSIVE RStrip(_)
RStrip(s) ==
    IF s # <<>> /\ IsSpace(s[Len(s)]) THEN RStrip(SubSeq(s, 1, Len(s) - 1)) ELSE s

\* str.strip()
Strip(s) == RStrip(LStrip(s))

\* the characters of the model's strings, in code point order
Chars ==
    << NL, " ", "0", "1", "2", "3", "4", "5", "6", "7", "8", "9",
       "A", "B", "N", "a", "b", "c", "d", "e", "f", "n", "o", "t", "w" >>

\* ord(c)
Ord(c) == CHOOSE i \in DOMAIN Chars : Chars[i] = c

\* str.lower(), a character at a time
LowerChar(c) ==
    CASE c = "A" -> "a"
      [] c = "B" -> "b"
      [] c = "N" -> "n"
      [] OTHER -> c

Lower(s) == [i \in DOMAIN s |-> LowerChar(s[i])]

\* a < b for str: the first differing character decides, a proper prefix is less
RECURSIVE LessStr(_, _)
LessStr(a, b) ==
    IF b = <<>> THEN FALSE
    ELSE IF a = <<>> THEN TRUE
    ELSE IF Head(a) = Head(b) THEN LessStr(Tail(a), Tail(b))
    ELSE Ord(Head(a)) < Ord(Head(b))

\* sub in s
Contains(sub, s) ==
    \E i \in 0..(Len(s) - Len(sub)) : SubSeq(s, i + 1, i + Len(sub)) = sub

\* ------------------------------------------------------------------------
\* Rich text: QTextEdit.toHtml, QTextDocument.setHtml / toPlainText.
\* A document is its plain text; its HTML is one <p> block per line.
\* ------------------------------------------------------------------------
RECURSIVE Paragraphs(_)
Paragraphs(lines) ==
    IF lines = <<>> THEN <<>>
    ELSE <<"<p>">> \o lines[1] \o <<"</p>">> \o Paragraphs(Tail(lines))

toHtml(text) == <<"<html>">> \o Paragraphs(SplitLines(text)) \o <<"</html>">>

\* setHtml followed by toPlainText: blocks are separated by a newline
RECURSIVE PlainAcc(_, _, _)
PlainAcc(h, seen, acc) ==
    IF h = <<>> THEN acc
    ELSE IF Head(h) \in {"<html>", "</html>", "</p>"} THEN PlainAcc(Tail(h), seen, acc)
    ELSE IF Head(h) = "<p>"
         THEN PlainAcc(Tail(h), TRUE, IF seen THEN Append(acc, NL) ELSE acc)
    ELSE PlainAcc(Tail(h), seen, Append(acc, Head(h)))

toPlainText(html) == PlainAcc(html, FALSE, <<>>)

\* note_id[:8], one token standing for the eight characters
IdPrefix(note_id) == <<ToString(note_id)>>

\* f"New Note {note_id[:8]}"
Placeholder(note_id) == NewNoteTitle \o <<" ">> \o IdPrefix(note_id)

\* _on_text_changed, the title derived from the HTML
DeriveTitle(note_id, html) ==
    LET title_text == SplitLines(toPlainText(html))
        new_title  == Strip(JoinLines(Take(title_text, PREVIEW_LINES)))
    IN  IF new_title = <<>> THEN Placeholder(note_id) ELSE new_title

\* ------------------------------------------------------------------------
\* dict used as a map: insertion-ordered entries [key, ref]
\* ------------------------------------------------------------------------
Keys(d) == {d[i].key : i \in DOMAIN d}

HasKey(d, k) == \E i \in DOMAIN d : d[i].key = k

\* d[k], for a key of d
Get(d, k) == d[CHOOSE i \in DOMAIN d : d[i].key = k].ref

\* d[k] = r : an existing key keeps its position, a new key goes last
DictSet(d, k, r) ==
    IF HasKey(d, k)
    THEN [i \in DOMAIN d |-> IF d[i].key = k THEN [key |-> k, ref |-> r] ELSE d[i]]
    ELSE Append(d, [key |-> k, ref |-> r])

\* del d[k]
DictDel(d, k) == SelectSeq(d, LAMBDA e : e.key # k)

\* list(d.values()), dereferenced
Values(d, hp) == [i \in DOMAIN d |-> hp[d[i].ref]]

\* the store as a mapping key -> record (what dict equality compares)
StoreMap(d, hp) == [k \in Keys(d) |-> hp[Get(d, k)]]

\* ------------------------------------------------------------------------
\* Note records and the JSON file
\* ------------------------------------------------------------------------
NoteRecord(id, title, content, x, y, w, h) ==
    [id |-> id, title |-> title, content |-> content,
     x |-> x, y |-> y, width |-> w, height |-> h]

\* a JSON value one level deep.  An element of a document is a JSON object
\* with or without an "id" key (t = "object"), or something that is no object
\* (t = "scalar": a number, a string, null, an array).  A document is an
\* array of elements; an object or a string, iterated as its keys or
\* characters (scalar elements); or a number or null (no elements).
JsonObject(rec) == [t |-> "object", hasId |-> TRUE, fields |-> rec]

\* a dump that loses the last record
JsonDump_DropsLast(values) ==
    [t |-> "array",
     items |-> [i \in 1..(Len(values) - 1) |-> [t |-> "object", hasId |-> TRUE, fields |-> values[i]]]]

\* json.dump(list(self.notes.values()), f)
JsonDump(values) == [t |-> "array", items |-> [i \in DOMAIN values |-> JsonObject(values[i])]]

NoDoc == [t |-> "null", items |-> <<>>]

\* no file at NOTES_FILE
FileMissing == [kind |-> "missing", doc |-> NoDoc]

\* a file json.load cannot decode (arbitrary bytes, an empty or truncated file)
FileGarbage == [kind |-> "garbage", doc |-> NoDoc]

\* a path that exists and cannot be opened for reading
FileUnreadable == [kind |-> "unreadable", doc |-> NoDoc]

FileJson(doc) == [kind |-> "json", doc |-> doc]

\* note["id"] raises for an element that is no object or has no "id" key
Subscriptable(item) == item.t = "object" /\ item.hasId

\* {note["id"]: note for note in loaded_notes_list}; the heap gets one dict per
\* element that survives (a later element with the same id replaces the value)
RECURSIVE LoadDict(_, _)
LoadDict(items, acc) ==
    IF items = <<>> THEN acc
    ELSE LET note == Head(items).fields
         IN  LoadDict(Tail(items),
                      [notes |-> DictSet(acc.notes, note.id, note.id),
                       heap  |-> (note.id :> note) @@ acc.heap])

EmptyStore == [notes |-> <<>>, heap |-> <<>>]

Loaded(store, raised) == [notes |-> store.notes, heap |-> store.heap, raised |-> raised]

\* the body of the try statement of _load_notes: the store it assigns, or the
\* exception it raises before assigning anything
TryLoad(file) ==
    IF file.kind = "unreadable" THEN Loaded(EmptyStore, "OSError")
    ELSE IF file.kind = "garbage" THEN Loaded(EmptyStore, "JSONDecodeError")
    ELSE IF file.doc.t \in {"number", "null"} THEN Loaded(EmptyStore, "TypeError")
    ELSE IF \E i \in DOMAIN file.doc.items : ~Subscriptable(file.doc.items[i])
         THEN LET first == CHOOSE i \in DOMAIN file.doc.items :
                              /\ ~Subscriptable(file.doc.items[i])
                              /\ \A j \in 1..(i - 1) : Subscriptable(file.doc.items[j])
              IN  Loaded(EmptyStore,
                         IF file.doc.items[first].t = "object" THEN "KeyError" ELSE "TypeError")
    ELSE Loaded(LoadDict(file.doc.items, EmptyStore), "none")

\* the classes "except Exception" catches
Exceptions == {"OSError", "JSONDecodeError", "TypeError", "KeyError"}

\* _load_notes with the JSONDecodeError handler only
LoadNotes_NoCatchAll(file) ==
    IF file.kind = "missing" THEN Loaded(EmptyStore, "none")
    ELSE LET r == TryLoad(file)
         IN  IF r.raised = "none" THEN r
             ELSE IF r.raised = "JSONDecodeError" THEN Loaded(EmptyStore, "none")
             ELSE Loaded(EmptyStore, r.raised)

\* SideToolbarApp._load_notes: the store read from the file; raised is the
\* exception that leaves the method, "none" when it returns
LoadNotes(file) ==
    IF file.kind = "missing" THEN Loaded(EmptyStore, "none")
    ELSE LET r == TryLoad(file)
         IN  IF r.raised = "none" THEN r
             ELSE IF r.raised = "JSONDecodeError" THEN Loaded(EmptyStore, "none")
             ELSE IF r.raised \in Exceptions THEN Loaded(EmptyStore, "none")
             ELSE Loaded(EmptyStore, r.raised)

\* ------------------------------------------------------------------------
\* Program state
\* ------------------------------------------------------------------------
VARIABLES
    notes,              \* SideToolbarApp.notes: ordered entries [key, ref]
    heap,               \* the note dicts, by reference
    open_sticky_notes,  \* SideToolbarApp.open_sticky_notes: ordered entries [key, ref = window]
    orphans,            \* ids of the visible windows the registry no longer refers to
    filter_input,       \* filter_input.text()
    previews,           \* the NotePreviewWidgets of notes_list_layout, in order
    win,                \* a StickyNoteWindow on screen: geometry, resizing state, title bar
    mouse,              \* the buttons held, the cursor, the widget the events go to
    disk,               \* NOTES_FILE
    pc,                 \* "running", or "closed" once the toolbar has been closed
    issued,             \* every identifier that has been a key of the store
    moves,              \* geometry-changing mouse moves so far
    faults,             \* failed file writes so far
    steps,              \* user operations so far
    op,                 \* the operation that led to this state
    log                 \* what that operation did, in order

vars == <<notes, heap, open_sticky_notes, orphans, filter_input, previews, win, mouse, disk, pc, issued, moves, faults, steps, op, log>>

\* the part of the state the handlers work on, and the write outcomes they will meet
State(io) ==
    [notes |-> notes, heap |-> heap, reg |-> open_sticky_notes, orphans |-> orphans,
     filter |-> filter_input, previews |-> previews, disk |-> disk, io |-> io, log |-> <<>>]

NoGeo == <<0, 0, 0, 0>>

Event(ev, id, geo) == [ev |-> ev, id |-> id, geo |-> geo]

Logged(S, ev, id, geo) == [S EXCEPT !.log = Append(@, Event(ev, id, geo))]

RecGeo(r) == <<r.x, r.y, r.width, r.height>>

WinGeo(w) == <<w.x, w.y, w.width, w.height>>

\* outcomes of open(NOTES_FILE, 'w') + json.dump: written; open raised (file
\* untouched); the write raised after open had truncated the file
WriteOutcomes == {"ok", "denied", "truncated"}

\* _save_notes whose handler resets the store, as the handlers of _load_notes do
SaveNotes_ResetsOnFailure(S) ==
    LET outcome == IF S.io = <<>> THEN "ok" ELSE Head(S.io)
        file == CASE outcome = "ok" -> FileJson(JsonDump(Values(S.notes, S.heap)))
                  [] outcome = "denied" -> S.disk
                  [] OTHER -> FileGarbage
        S1 == [S EXCEPT !.disk = file, !.io = IF S.io = <<>> THEN <<>> ELSE Tail(S.io),
                        !.notes = IF outcome = "ok" THEN @ ELSE <<>>]
    IN  [S1 EXCEPT !.log = Append(@, [ev |-> IF outcome = "ok" THEN "save" ELSE "save_failed",
                                      id |-> 0, geo |-> <<0, 0, 0, 0>>])]

\* SideToolbarApp._save_notes
SaveNotes(S) ==
    LET outcome == IF S.io = <<>> THEN "ok" ELSE Head(S.io)
        file == CASE outcome = "ok" -> FileJson(JsonDump(Values(S.notes, S.heap)))
                  [] outcome = "denied" -> S.disk
                  [] OTHER -> FileGarbage
        S1 == [S EXCEPT !.disk = file, !.io = IF S.io = <<>> THEN <<>> ELSE Tail(S.io)]
    IN  Logged(S1, IF outcome = "ok" THEN "save" ELSE "save_failed", 0, NoGeo)

\* a sort key comparing the titles as they are written
TitleKey_CaseSensitive(d, hp, note_id) == hp[Get(d, note_id)].title

\* the sort key of _display_notes: self.notes[note_id].get("title", "").lower()
TitleKey(d, hp, note_id) == Lower(hp[Get(d, note_id)].title)

\* sorted(): note_id put after every id whose key is not greater (stable)
RECURSIVE Insert(_, _, _, _)
Insert(sorted, note_id, d, hp) ==
    IF sorted = <<>> THEN <<note_id>>
    ELSE IF LessStr(TitleKey(d, hp, note_id), TitleKey(d, hp, Head(sorted)))
         THEN <<note_id>> \o sorted
         ELSE <<Head(sorted)>> \o Insert(Tail(sorted), note_id, d, hp)

RECURSIVE SortedFrom(_, _, _, _)
SortedFrom(i, sorted, d, hp) ==
    IF i > Len(d) THEN sorted
    ELSE SortedFrom(i + 1, Insert(sorted, d[i].key, d, hp), d, hp)

\* sorted(self.notes.keys(), key=...)
SortedNoteIds(d, hp) == SortedFrom(1, <<>>, d, hp)

Preview(note_id, note_title) == [note_id |-> note_id, note_title |-> note_title]

\* the loop of _display_notes over sorted_note_ids: the preview widgets added
RECURSIVE PreviewsOf(_, _, _, _)
PreviewsOf(sorted_note_ids, d, hp, filter_text) ==
    IF sorted_note_ids = <<>> THEN <<>>
    ELSE LET note_id == Head(sorted_note_ids)
             note_title == Strip(hp[Get(d, note_id)].title)
             rest == PreviewsOf(Tail(sorted_note_ids), d, hp, filter_text)
         IN  IF filter_text # <<>> /\ ~Contains(filter_text, Lower(note_title))
             THEN rest
             ELSE <<Preview(note_id, note_title)>> \o rest

\* the list _display_notes leaves, filter_input holding text
Rendered(d, hp, text) == PreviewsOf(SortedNoteIds(d, hp), d, hp, Lower(text))

\* SideToolbarApp._display_notes
DisplayNotes(S) ==
    Logged([S EXCEPT !.previews = Rendered(S.notes, S.heap, S.filter)], "display", 0, NoGeo)

\* SideToolbarApp._filter_notes(text), filter_input now holding text
FilterNotes(S, text) == DisplayNotes([S EXCEPT !.filter = text])

\* _handle_note_update that rebuilds the store from the record it was given
HandleNoteUpdate_ReplacesStore(S, note_id, note_data) ==
    LET S1 == [S EXCEPT !.notes = <<[key |-> note_id, ref |-> note_data]>>]
    IN  DisplayNotes(SaveNotes(S1))

\* SideToolbarApp._handle_note_update(note_id, note_data)
HandleNoteUpdate(S, note_id, note_data) ==
    LET S1 == [S EXCEPT !.notes = DictSet(@, note_id, note_data)]
    IN  DisplayNotes(SaveNotes(S1))

\* the signal note_updated, connected to _handle_note_update in _open_sticky_note
EmitNoteUpdated(S, w) ==
    HandleNoteUpdate(Logged(S, "note_updated", w.note_id, RecGeo(S.heap[w.note_data])),
                     w.note_id, w.note_data)

\* closeEvent that snapshots the position and forgets the size
CloseEvent_PositionOnly(S, w) ==
    LET S1 == [S EXCEPT !.heap[w.note_data] = [@ EXCEPT !.x = w.x, !.y = w.y]]
    IN  Logged(EmitNoteUpdated(S1, w), "hide", w.note_id, WinGeo(w))

\* StickyNoteWindow.closeEvent, up to event.accept()
CloseEvent(S, w) ==
    LET S1 == [S EXCEPT !.heap[w.note_data] =
                   [@ EXCEPT !.x = w.x, !.y = w.y, !.width = w.width, !.height = w.height]]
    IN  Logged(EmitNoteUpdated(S1, w), "hide", w.note_id, WinGeo(w))

\* a close() after which the window is still on screen
CloseRegistered_StaysVisible(S, note_id) == CloseEvent(S, Get(S.reg, note_id))

\* QWidget.close() on the window registered under note_id: the close event is
\* sent, and the accepted event hides the window
CloseRegistered(S, note_id) ==
    LET w  == Get(S.reg, note_id)
        S1 == CloseEvent(S, w)
    IN  [S1 EXCEPT !.reg = DictSet(@, note_id, [w EXCEPT !.visible = FALSE])]

\* del self.open_sticky_notes[note_id]: the window lives on, unreferenced by
\* the registry, and stays on screen if it was visible
Unregister(S, note_id) ==
    [S EXCEPT !.reg = DictDel(@, note_id),
              !.orphans = IF Get(S.reg, note_id).visible THEN @ \cup {note_id} ELSE @]

\* self.open_sticky_notes[note_id] = sticky_note_window: the window that was
\* registered under note_id, if any, is no longer referred to
Register(S, note_id, sticky_note_window) ==
    [S EXCEPT !.reg = DictSet(@, note_id, sticky_note_window),
              !.orphans = IF HasKey(S.reg, note_id) /\ Get(S.reg, note_id).visible
                          THEN @ \cup {note_id} ELSE @]

\* SideToolbarApp._delete_note_from_toolbar(note_id)
DeleteNoteFromToolbar(S, note_id) ==
    IF ~HasKey(S.notes, note_id) THEN S
    ELSE LET S1 == DisplayNotes(SaveNotes([S EXCEPT !.notes = DictDel(@, note_id)]))
         IN  IF ~HasKey(S1.reg, note_id) THEN S1
             ELSE LET S2 == CloseRegistered(S1, note_id)
                  IN  Unregister(S2, note_id)

\* SideToolbarApp._handle_note_deletion(note_id)
HandleNoteDeletion(S, note_id) ==
    IF ~HasKey(S.notes, note_id) THEN S
    ELSE LET S1 == DisplayNotes(SaveNotes([S EXCEPT !.notes = DictDel(@, note_id)]))
         IN  IF ~HasKey(S1.reg, note_id) THEN S1
             ELSE LET S2 == CloseRegistered(S1, note_id)
                  IN  Unregister(S2, note_id)

\* StickyNoteWindow._delete_note of the window w: the signal note_deleted
\* (connected to _handle_note_deletion), then self.close()
DeleteNote(S, w) ==
    LET S1 == HandleNoteDeletion(Logged(S, "note_deleted", w.note_id, NoGeo), w.note_id)
        S2 == CloseEvent(S1, w)
    IN  IF HasKey(S2.reg, w.note_id)
        THEN [S2 EXCEPT !.reg = DictSet(@, w.note_id, [w EXCEPT !.visible = FALSE])]
        ELSE S2

\* the answer QMessageBox.question returns
Replies == {"Yes", "No"}

Answered(S, note_id, reply) ==
    Logged(S, IF reply = "Yes" THEN "answered_yes" ELSE "answered_no", note_id, NoGeo)

\* _confirm_delete of a note window deleting whatever the answer
ConfirmDelete_IgnoresReply(S, w, reply) == DeleteNote(Answered(S, w.note_id, reply), w)

\* StickyNoteWindow._confirm_delete of the window w
ConfirmDelete(S, w, reply) ==
    LET S1 == Answered(S, w.note_id, reply)
    IN  IF reply = "Yes" THEN DeleteNote(S1, w) ELSE S1

\* NotePreviewWidget._confirm_delete of the preview of note_id: the signal
\* delete_note_signal is connected to _delete_note_from_toolbar
PreviewConfirmDelete(S, note_id, reply) ==
    LET S1 == Answered(S, note_id, reply)
    IN  IF reply = "Yes"
        THEN DeleteNoteFromToolbar(Logged(S1, "delete_note_signal", note_id, NoGeo), note_id)
        ELSE S1

\* StickyNoteWindow.__init__(note_id, note_data): the text and the geometry of
\* the record, setGeometry keeping the size at or above setMinimumSize's
NewWindow(note_id, ref, rec) ==
    [note_id |-> note_id, note_data |-> ref, visible |-> TRUE,
     x |-> rec.x, y |-> rec.y,
     width |-> Max(MinimumWidth, rec.width), height |-> Max(MinimumHeight, rec.height),
     text |-> toPlainText(rec.content)]

\* _open_sticky_note without the isVisible() test: a window whenever the note exists
OpenStickyNote_AlwaysNew(S, note_id) ==
    IF HasKey(S.notes, note_id)
    THEN LET ref == Get(S.notes, note_id)
             sticky_note_window == NewWindow(note_id, ref, S.heap[ref])
         IN  Logged(Register(S, note_id, sticky_note_window), "show", note_id,
                    WinGeo(sticky_note_window))
    ELSE Logged(S, "warning", note_id, NoGeo)

\* _open_sticky_note making a new empty note of an id the store does not have
OpenStickyNote_RevivesMissing(S, note_id) ==
    IF HasKey(S.reg, note_id) /\ Get(S.reg, note_id).visible
    THEN Logged(S, "raise", note_id, NoGeo)
    ELSE LET rec == NoteRecord(note_id, NewNoteTitle, <<>>,
                               DefaultX, DefaultY, DefaultWidth, DefaultHeight)
             S0 == IF HasKey(S.notes, note_id) THEN S
                   ELSE [S EXCEPT !.heap = (note_id :> rec) @@ @,
                                  !.notes = DictSet(@, note_id, note_id)]
             ref == Get(S0.notes, note_id)
             sticky_note_window == NewWindow(note_id, ref, S0.heap[ref])
         IN  Logged(Register(S0, note_id, sticky_note_window), "show", note_id,
                    WinGeo(sticky_note_window))

\* SideToolbarApp._open_sticky_note(note_id)
OpenStickyNote(S, note_id) ==
    IF HasKey(S.reg, note_id) /\ Get(S.reg, note_id).visible
    THEN Logged(S, "raise", note_id, NoGeo)
    ELSE IF HasKey(S.notes, note_id)
         THEN LET ref == Get(S.notes, note_id)
                  sticky_note_window == NewWindow(note_id, ref, S.heap[ref])
                  S1 == Register(S, note_id, sticky_note_window)
              IN  Logged(S1, "show", note_id, WinGeo(sticky_note_window))
         ELSE Logged(S, "warning", note_id, NoGeo)

\* _add_new_note that opens the window first and saves afterwards
AddNewNote_OpenBeforeSave(S, new_note_id) ==
    LET new_note_data == NoteRecord(new_note_id, NewNoteTitle, <<>>,
                                    DefaultX, DefaultY, DefaultWidth, DefaultHeight)
        S1 == [S EXCEPT !.heap = (new_note_id :> new_note_data) @@ @,
                        !.notes = DictSet(@, new_note_id, new_note_id)]
    IN  DisplayNotes(SaveNotes(OpenStickyNote(S1, new_note_id)))

\* _add_new_note that calls uuid4 once for the key and once more for the record
AddNewNote_TwoUuids(S, new_note_id) ==
    LET new_note_data == NoteRecord(0, NewNoteTitle, <<>>,
                                    DefaultX, DefaultY, DefaultWidth, DefaultHeight)
        S1 == [S EXCEPT !.heap = (new_note_id :> new_note_data) @@ @,
                        !.notes = DictSet(@, new_note_id, new_note_id)]
    IN  OpenStickyNote(DisplayNotes(SaveNotes(S1)), new_note_id)

\* SideToolbarApp._add_new_note, with new_note_id the value of uuid.uuid4()
AddNewNote(S, new_note_id) ==
    LET new_note_data == NoteRecord(new_note_id, NewNoteTitle, <<>>,
                                    DefaultX, DefaultY, DefaultWidth, DefaultHeight)
        S1 == [S EXCEPT !.heap = (new_note_id :> new_note_data) @@ @,
                        !.notes = DictSet(@, new_note_id, new_note_id)]
    IN  OpenStickyNote(DisplayNotes(SaveNotes(S1)), new_note_id)

\* _on_text_changed whose title remembers that it was derived before
OnTextChanged_TitleGrows(S, note_id, text) ==
    LET w0 == Get(S.reg, note_id)
        w  == [w0 EXCEPT !.text = text]
        current_html == toHtml(text)
        derived == DeriveTitle(w.note_id, current_html)
        new_title == IF S.heap[w.note_data].title = derived
                     THEN derived \o <<"a">> ELSE derived
        S1 == [S EXCEPT !.reg = DictSet(@, note_id, w),
                        !.heap[w.note_data] =
                            [@ EXCEPT !.content = current_html, !.title = new_title]]
    IN  EmitNoteUpdated(S1, w)

\* _on_text_changed that snapshots the window's geometry as closeEvent does
OnTextChanged_WithGeometry(S, note_id, text) ==
    LET w0 == Get(S.reg, note_id)
        w  == [w0 EXCEPT !.text = text]
        current_html == toHtml(text)
        S1 == [S EXCEPT !.reg = DictSet(@, note_id, w),
                        !.heap[w.note_data] =
                            [@ EXCEPT !.content = current_html,
                                      !.title = DeriveTitle(w.note_id, current_html),
                                      !.x = w.x, !.y = w.y,
                                      !.width = w.width, !.height = w.height]]
    IN  EmitNoteUpdated(S1, w)

\* _on_text_changed without its last line: the record changed through the
\* window's reference, the toolbar never told
OnTextChanged_NoEmit(S, note_id, text) ==
    LET w0 == Get(S.reg, note_id)
        w  == [w0 EXCEPT !.text = text]
        current_html == toHtml(text)
    IN  [S EXCEPT !.reg = DictSet(@, note_id, w),
                  !.heap[w.note_data] =
                      [@ EXCEPT !.content = current_html,
                                !.title = DeriveTitle(w.note_id, current_html)]]

\* StickyNoteWindow._on_text_changed of the window registered under note_id,
\* whose document now holds text
OnTextChanged(S, note_id, text) ==
    LET w0 == Get(S.reg, note_id)
        w  == [w0 EXCEPT !.text = text]
        current_html == toHtml(text)
        new_title == DeriveTitle(w.note_id, current_html)
        S1 == [S EXCEPT !.reg = DictSet(@, note_id, w),
                        !.heap[w.note_data] =
                            [@ EXCEPT !.content = current_html, !.title = new_title]]
    IN  EmitNoteUpdated(S1, w)

\* SideToolbarApp.closeEvent: the loop over list(self.open_sticky_notes.items())
RECURSIVE CloseAll(_, _)
CloseAll(S, items) ==
    IF items = <<>> THEN S
    ELSE LET note_id == Head(items).key
         IN  CloseAll(IF Head(items).ref.visible THEN CloseRegistered(S, note_id) ELSE S,
                      Tail(items))

\* the toolbar's closeEvent doing its save before it closes the windows
ToolbarCloseEvent_SaveFirst(S) == CloseAll(SaveNotes(S), S.reg)

\* SideToolbarApp.closeEvent
ToolbarCloseEvent(S) == SaveNotes(CloseAll(S, S.reg))

\* ------------------------------------------------------------------------
\* Window geometry
\* ------------------------------------------------------------------------
\* 'left' in self.resizing_from, and so on: the edge names each value contains
EdgesOf(resizing_from) ==
    CASE resizing_from = "top_left"     -> {"top", "left"}
      [] resizing_from = "top_right"    -> {"top", "right"}
      [] resizing_from = "bottom_left"  -> {"bottom", "left"}
      [] resizing_from = "bottom_right" -> {"bottom", "right"}
      [] OTHER                          -> {resizing_from}

Rect(x, y, w, h) == [x |-> x, y |-> y, width |-> w, height |-> h]

\* a resize whose right and bottom edges drag the anchor along
ResizeGeometry_RightMovesAnchor(rect, resizing_from, dx, dy) ==
    LET e == EdgesOf(resizing_from)
    IN  Rect(IF "right" \in e THEN rect.x + dx ELSE rect.x,
             IF "bottom" \in e THEN rect.y + dy ELSE rect.y,
             IF "right" \in e THEN Max(MinimumWidth, rect.width + dx) ELSE rect.width,
             IF "bottom" \in e THEN Max(MinimumHeight, rect.height + dy) ELSE rect.height)

\* a resize whose left and top edges change the size and leave the anchor
ResizeGeometry_AnchorStays(rect, resizing_from, dx, dy) ==
    LET e == EdgesOf(resizing_from)
        w1 == IF "right" \in e THEN Max(MinimumWidth, rect.width + dx) ELSE rect.width
        h1 == IF "bottom" \in e THEN Max(MinimumHeight, rect.height + dy) ELSE rect.height
    IN  Rect(rect.x, rect.y,
             IF "left" \in e THEN Max(MinimumWidth, rect.width - dx) ELSE w1,
             IF "top" \in e THEN Max(MinimumHeight, rect.height - dy) ELSE h1)

\* a resize without the max(self.minimumWidth(), ...) and
\* max(self.minimumHeight(), ...) of the handler
ResizeGeometry_Unclamped(rect, resizing_from, dx, dy) ==
    LET e == EdgesOf(resizing_from)
        w1 == IF "right" \in e THEN rect.width + dx ELSE rect.width
        h1 == IF "bottom" \in e THEN rect.height + dy ELSE rect.height
    IN  Rect(IF "left" \in e THEN rect.x + dx ELSE rect.x,
             IF "top" \in e THEN rect.y + dy ELSE rect.y,
             IF "left" \in e THEN rect.width - dx ELSE w1,
             IF "top" \in e THEN rect.height - dy ELSE h1)

\* StickyNoteWindow.mouseMoveEvent, the resizing branch: the geometry given to
\* setGeometry for the start geometry rect and the cursor delta (dx, dy)
ResizeGeometry(rect, resizing_from, dx, dy) ==
    LET e == EdgesOf(resizing_from)
        w1 == IF "right" \in e THEN Max(MinimumWidth, rect.width + dx) ELSE rect.width
        h1 == IF "bottom" \in e THEN Max(MinimumHeight, rect.height + dy) ELSE rect.height
        w2 == IF "left" \in e THEN Max(MinimumWidth, rect.width - dx) ELSE w1
        x2 == IF "left" \in e
              THEN IF w2 <= MinimumWidth /\ rect.width > MinimumWidth
                   THEN rect.x + (rect.width - MinimumWidth)
                   ELSE rect.x + dx
              ELSE rect.x
        h2 == IF "top" \in e THEN Max(MinimumHeight, rect.height - dy) ELSE h1
        y2 == IF "top" \in e
              THEN IF h2 <= MinimumHeight /\ rect.height > MinimumHeight
                   THEN rect.y + (rect.height - MinimumHeight)
                   ELSE rect.y + dy
              ELSE rect.y
    IN  Rect(x2, y2, w2, h2)

\* DraggableTitleBar.mouseMoveEvent: parent_window.move(x + delta.x, y + delta.y)
DragGeometry(rect, dx, dy) == Rect(rect.x + dx, rect.y + dy, rect.width, rect.height)

WithGeometry(w, rect) ==
    [w EXCEPT !.x = rect.x, !.y = rect.y, !.width = rect.width, !.height = rect.height]

\* None, and a value that is not None
None == <<>>

Some(v) == <<v>>

\* StickyNoteWindow.geometry()
GeometryOf(w) == Rect(w.x, w.y, w.width, w.height)

\* a StickyNoteWindow with the geometry rect, as __init__ leaves its resizing
\* state, and its DraggableTitleBar
IdleWindow(rect) ==
    [x |-> rect.x, y |-> rect.y, width |-> rect.width, height |-> rect.height,
     resizing |-> FALSE, resizing_from |-> "None", start_pos |-> None,
     start_geometry |-> None, old_pos |-> None]

\* the value mousePressEvent gives resizing_from for the position pos in a
\* window w wide and h high; "None" when no branch assigns it
EdgeAt(pos, w, h) ==
    LET on_left   == pos[1] <= RESIZE_GRIP_SIZE
        on_right  == pos[1] >= w - RESIZE_GRIP_SIZE
        on_top    == pos[2] <= RESIZE_GRIP_SIZE
        on_bottom == pos[2] >= h - RESIZE_GRIP_SIZE
    IN  CASE on_top /\ on_left     -> "top_left"
          [] on_top /\ on_right    -> "top_right"
          [] on_bottom /\ on_left  -> "bottom_left"
          [] on_bottom /\ on_right -> "bottom_right"
          [] on_left               -> "left"
          [] on_right              -> "right"
          [] on_top                -> "top"
          [] on_bottom             -> "bottom"
          [] OTHER                 -> "None"

\* StickyNoteWindow.mousePressEvent: button pressed at pos (in the window), the
\* cursor at global_pos
WindowMousePress(w, button, pos, global_pos) ==
    IF button # "left" THEN w
    ELSE LET edge == EdgeAt(pos, w.width, w.height)
             resizing_from == IF edge # "None" THEN edge ELSE w.resizing_from
         IN  [w EXCEPT !.start_pos = Some(global_pos),
                       !.start_geometry = Some(GeometryOf(w)),
                       !.resizing_from = resizing_from,
                       !.resizing = IF resizing_from # "None" THEN TRUE ELSE @]

\* a move handler that resizes by the delta since the last event: it starts
\* from the geometry the window has and moves its records along
WindowMouseMove_Incremental(w, buttons, global_pos) ==
    IF w.resizing /\ buttons = {"left"}
    THEN LET start_pos == w.start_pos[1]
             resized == WithGeometry(w, ResizeGeometry(GeometryOf(w), w.resizing_from,
                                                       global_pos[1] - start_pos[1],
                                                       global_pos[2] - start_pos[2]))
         IN  [resized EXCEPT !.start_pos = Some(global_pos),
                             !.start_geometry = Some(GeometryOf(resized))]
    ELSE w

\* StickyNoteWindow.mouseMoveEvent: the buttons held, the cursor at global_pos;
\* the branch that only sets the cursor shape changes nothing here
WindowMouseMove(w, buttons, global_pos) ==
    IF w.resizing /\ buttons = {"left"}
    THEN LET start_pos == w.start_pos[1]
             rect == w.start_geometry[1]
         IN  WithGeometry(w, ResizeGeometry(rect, w.resizing_from,
                                            global_pos[1] - start_pos[1],
                                            global_pos[2] - start_pos[2]))
    ELSE w

\* a release that drops the flag and forgets to clear the recorded edge-set
WindowMouseRelease_KeepsEdge(w) ==
    [w EXCEPT !.resizing = FALSE, !.start_pos = None, !.start_geometry = None]

\* StickyNoteWindow.mouseReleaseEvent
WindowMouseRelease(w) ==
    [w EXCEPT !.resizing = FALSE, !.resizing_from = "None",
              !.start_pos = None, !.start_geometry = None]

\* DraggableTitleBar.mousePressEvent
TitleBarMousePress(w, button, global_pos) ==
    IF button = "left" THEN [w EXCEPT !.old_pos = Some(global_pos)] ELSE w

\* DraggableTitleBar.mouseMoveEvent
TitleBarMouseMoveEvent(w, buttons, global_pos) ==
    IF buttons = {"left"} /\ w.old_pos # None
    THEN LET old_pos == w.old_pos[1]
             moved == WithGeometry(w, DragGeometry(GeometryOf(w),
                                                   global_pos[1] - old_pos[1],
                                                   global_pos[2] - old_pos[2]))
         IN  [moved EXCEPT !.old_pos = Some(global_pos)]
    ELSE w

\* DraggableTitleBar.mouseReleaseEvent
TitleBarMouseRelease(w) == [w EXCEPT !.old_pos = None]

\* the widget a press at pos lands on: the title bar across the top, the
\* padding of the content frame around the editor (events there reach the
\* window), the editor and the buttons (which keep their events)
WidgetAt(pos, w, h) ==
    IF pos[2] < TitleBarHeight THEN "title_bar"
    ELSE IF \/ pos[1] < ContentMargin
            \/ pos[1] >= w - ContentMargin
            \/ pos[2] >= h - ContentMargin
         THEN "window"
         ELSE "child"

\* no button held; the cursor somewhere
NoMouse == [buttons |-> {}, pos |-> <<0, 0>>, grabber |-> "none"]

\* a press delivered to the widget it lands on and, the widget's base handler
\* ignoring it, to its parents up to the window
DeliverPress(w, widget, button, pos, global_pos) ==
    CASE widget = "title_bar" ->
            WindowMousePress(TitleBarMousePress(w, button, global_pos), button, pos, global_pos)
      [] widget = "window" -> WindowMousePress(w, button, pos, global_pos)
      [] OTHER -> w

DeliverMove(w, widget, buttons, global_pos) ==
    CASE widget = "title_bar" ->
            WindowMouseMove(TitleBarMouseMoveEvent(w, buttons, global_pos), buttons, global_pos)
      [] widget = "window" -> WindowMouseMove(w, buttons, global_pos)
      [] OTHER -> w

DeliverRelease(w, widget) ==
    CASE widget = "title_bar" -> WindowMouseRelease(TitleBarMouseRelease(w))
      [] widget = "window" -> WindowMouseRelease(w)
      [] OTHER -> w

\* ------------------------------------------------------------------------
\* Inputs
\* ------------------------------------------------------------------------
NoteIds == 1..MaxNotes

\* what the user may leave in the editor: blanks only; padded lines, more of
\* them than the preview shows
Texts ==
    { <<" ", NL>>,
      <<" ", "A", NL, "b", NL, "c", NL, "d", NL, "e", " ", NL, "f">> }

\* what the user may type into the filter box
Filters == { <<>>, <<"A">> }

Deltas == { <<10, 5>> }

ResizeFrom == {"bottom_right", "top_left"}

\* a file left by an earlier session: one note, edited, moved and closed
SavedNote == NoteRecord(1, <<"a">>, toHtml(<<"a">>), 110, 105, DefaultWidth, DefaultHeight)

InitialFiles == { FileMissing, FileJson(JsonDump(<<SavedNote>>)) }

Failed(io) == Cardinality({i \in DOMAIN io : io[i] # "ok"})

\* the outcomes the n file writes of a handler may meet
WritePlans(n) == {io \in [1..n -> WriteOutcomes] : faults + Failed(io) <= MaxFaults}

\* uuid.uuid4(): an identifier never seen before (the least one, the
\* identifiers being interchangeable)
FreshIds == {i \in NoteIds \ issued : \A j \in NoteIds \ issued : i <= j}

VisibleCount == Cardinality({i \in DOMAIN open_sticky_notes : open_sticky_notes[i].ref.visible})

VisibleWindow(note_id) ==
    HasKey(open_sticky_notes, note_id) /\ Get(open_sticky_notes, note_id).visible

\* the note dicts still referenced by the store or by a registered window
Live(S) ==
    {S.notes[i].ref : i \in DOMAIN S.notes} \cup {S.reg[i].ref.note_data : i \in DOMAIN S.reg}

Operation(name, id) == [name |-> name, id |-> id]

\* the state a handler leaves; every outcome of the plan must have been met
Becomes(S, o) ==
    /\ \A i \in DOMAIN S.io : S.io[i] = "ok"
    /\ notes' = S.notes
    /\ heap' = [r \in Live(S) |-> S.heap[r]]
    /\ open_sticky_notes' = S.reg
    /\ orphans' = S.orphans
    /\ filter_input' = S.filter
    /\ previews' = S.previews
    /\ UNCHANGED <<win, mouse>>
    /\ disk' = S.disk
    /\ issued' = issued \cup Keys(S.notes)
    /\ faults' = faults + Cardinality({i \in DOMAIN S.log : S.log[i].ev = "save_failed"})
    /\ steps' = steps + 1
    /\ op' = o
    /\ log' = S.log

\* ------------------------------------------------------------------------
\* The program
\* ------------------------------------------------------------------------
\* main(): the event loop runs unless the constructor raised
Started(loaded) == IF loaded.raised = "none" THEN "running" ELSE "crashed"

Init ==
    /\ disk \in InitialFiles
    /\ notes = LoadNotes(disk).notes
    /\ heap = LoadNotes(disk).heap
    /\ open_sticky_notes = <<>>
    /\ orphans = {}
    /\ filter_input = <<>>
    /\ previews = Rendered(notes, heap, filter_input)
    /\ win = IdleWindow(Rect(DefaultX, DefaultY, DefaultWidth, DefaultHeight))
    /\ mouse = NoMouse
    /\ pc = Started(LoadNotes(disk))
    /\ issued = Keys(notes)
    /\ moves = 0
    /\ faults = 0
    /\ steps = 0
    /\ op = Operation("main", 0)
    /\ log = <<>>

Running == pc = "running" /\ steps < MaxOps

\* "Add New Note" clicked
AddNote ==
    /\ Running
    /\ \E new_note_id \in FreshIds, io \in WritePlans(1) :
          Becomes(AddNewNote(State(io), new_note_id), Operation("add", new_note_id))
    /\ UNCHANGED <<pc, moves>>

\* a preview clicked (open_note_signal)
OpenNote ==
    /\ Running
    /\ \E note_id \in NoteIds :
          Becomes(OpenStickyNote(State(<<>>), note_id), Operation("open", note_id))
    /\ UNCHANGED <<pc, moves>>

\* the text of an open note edited (textChanged)
EditNote ==
    /\ Running
    /\ \E note_id \in NoteIds, text \in Texts, io \in WritePlans(1) :
          /\ VisibleWindow(note_id)
          /\ Becomes(OnTextChanged(State(io), note_id, text), Operation("edit", note_id))
    /\ UNCHANGED <<pc, moves>>

\* the close button of an open note clicked
CloseNote ==
    /\ Running
    /\ \E note_id \in NoteIds, io \in WritePlans(1) :
          /\ VisibleWindow(note_id)
          /\ Becomes(CloseRegistered(State(io), note_id), Operation("close", note_id))
    /\ UNCHANGED <<pc, moves>>

\* "Delete Note" clicked in an open note, and the question answered
DeleteFromWindow ==
    /\ Running
    /\ \E note_id \in NoteIds, reply \in Replies, io \in WritePlans(3) :
          /\ VisibleWindow(note_id)
          /\ Becomes(ConfirmDelete(State(io), Get(open_sticky_notes, note_id), reply),
                     Operation(IF reply = "Yes" THEN "delete_window" ELSE "decline_window",
                               note_id))
    /\ UNCHANGED <<pc, moves>>

\* "Delete" clicked on a preview, and the question answered; the previews are
\* those of the notes in the store
DeleteFromToolbar ==
    /\ Running
    /\ \E note_id \in Keys(notes), reply \in Replies :
          \E io \in WritePlans(IF HasKey(open_sticky_notes, note_id) THEN 2 ELSE 1) :
             Becomes(PreviewConfirmDelete(State(io), note_id, reply),
                     Operation(IF reply = "Yes" THEN "delete_toolbar" ELSE "decline_toolbar",
                               note_id))
    /\ UNCHANGED <<pc, moves>>

\* an open note dragged by its title bar
TitleBarMouseMove ==
    /\ Running
    /\ moves < MaxMoves
    /\ \E note_id \in NoteIds, delta \in Deltas :
          /\ VisibleWindow(note_id)
          /\ LET w == Get(open_sticky_notes, note_id)
                 S == State(<<>>)
             IN  Becomes([S EXCEPT !.reg = DictSet(@, note_id,
                              WithGeometry(w, DragGeometry(w, delta[1], delta[2])))],
                         Operation("drag", note_id))
    /\ moves' = moves + 1
    /\ UNCHANGED pc

\* an open note resized: a press on an edge and one move of the cursor
ResizeMouseMove ==
    /\ Running
    /\ moves < MaxMoves
    /\ \E note_id \in NoteIds, resizing_from \in ResizeFrom, delta \in Deltas :
          /\ VisibleWindow(note_id)
          /\ LET w == Get(open_sticky_notes, note_id)
                 S == State(<<>>)
             IN  Becomes([S EXCEPT !.reg = DictSet(@, note_id,
                              WithGeometry(w, ResizeGeometry(w, resizing_from, delta[1], delta[2])))],
                         Operation("resize", note_id))
    /\ moves' = moves + 1
    /\ UNCHANGED pc

\* the text of the filter box changed (textChanged)
SetFilter ==
    /\ Running
    /\ \E text \in Filters \ {filter_input} :
          Becomes(FilterNotes(State(<<>>), text), Operation("filter", 0))
    /\ UNCHANGED <<pc, moves>>

\* the toolbar closed
ToolbarClose ==
    /\ Running
    /\ \E io \in WritePlans(VisibleCount + 1) :
          Becomes(ToolbarCloseEvent(State(io)), Operation("toolbar_close", 0))
    /\ pc' = "closed"
    /\ UNCHANGED moves

\* the program started again: SideToolbarApp.__init__ loads the file
Restart ==
    /\ pc = "closed"
    /\ steps < MaxOps
    /\ Becomes(DisplayNotes([State(<<>>) EXCEPT !.notes = LoadNotes(disk).notes,
                                                !.heap = LoadNotes(disk).heap,
                                                !.reg = <<>>,
                                                !.orphans = {},
                                                !.filter = <<>>]),
               Operation("main", 0))
    /\ pc' = Started(LoadNotes(disk))
    /\ UNCHANGED moves

Next ==
    \/ AddNote
    \/ OpenNote
    \/ EditNote
    \/ CloseNote
    \/ DeleteFromWindow
    \/ DeleteFromToolbar
    \/ TitleBarMouseMove
    \/ ResizeMouseMove
    \/ SetFilter
    \/ ToolbarClose
    \/ Restart

Spec == Init /\ [][Next]_vars

\* ------------------------------------------------------------------------
\* _save_notes followed by _load_notes, from any store
\* ------------------------------------------------------------------------
\* the records a note may hold
RecordsOf(id) ==
    { NoteRecord(id, title_content[1], title_content[2], x, DefaultY, w, DefaultHeight) :
        title_content \in { <<NewNoteTitle, <<>> >>,
                            <<Placeholder(id), toHtml(<<" ", NL>>)>>,
                            <<(<<"a", NL, "b">>), toHtml(<<"a", NL, "b">>)>> },
        x \in {DefaultX, 110},
        w \in {DefaultWidth, MinimumWidth} }

\* the stores of at most n notes, each key the id of its record
RECURSIVE StoresOf(_)
StoresOf(n) ==
    IF n = 0 THEN { [notes |-> <<>>, heap |-> <<>>] }
    ELSE LET smaller == StoresOf(n - 1)
         IN  smaller \cup
             UNION { UNION { { [notes |-> Append(st.notes, [key |-> id, ref |-> id]),
                                heap  |-> (id :> rec) @@ st.heap] : rec \in RecordsOf(id) } :
                             id \in NoteIds \ Keys(st.notes) } :
                     st \in {t \in smaller : Len(t.notes) = n - 1} }

Stores == StoresOf(MaxNotes)

InitRoundTrip ==
    /\ \E st \in Stores : notes = st.notes /\ heap = st.heap
    /\ open_sticky_notes = <<>>
    /\ orphans = {}
    /\ filter_input = <<>>
    /\ previews = <<>>
    /\ win = IdleWindow(Rect(DefaultX, DefaultY, DefaultWidth, DefaultHeight))
    /\ mouse = NoMouse
    /\ disk = FileMissing
    /\ pc = "save"
    /\ issued = Keys(notes)
    /\ moves = 0
    /\ faults = 0
    /\ steps = 0
    /\ op = Operation("main", 0)
    /\ log = <<>>

\* self._save_notes(), the write succeeding
RoundTripSave ==
    /\ pc = "save"
    /\ disk' = SaveNotes(State(<<>>)).disk
    /\ pc' = "load"
    /\ op' = Operation("save", 0)
    /\ UNCHANGED <<notes, heap, open_sticky_notes, orphans, filter_input, previews, win, mouse,
                 issued, moves, faults, steps, log>>

\* self._load_notes()
RoundTripLoad ==
    /\ pc = "load"
    /\ notes' = LoadNotes(disk).notes
    /\ heap' = LoadNotes(disk).heap
    /\ pc' = IF LoadNotes(disk).raised = "none" THEN "loaded" ELSE "crashed"
    /\ op' = Operation("load", 0)
    /\ UNCHANGED <<open_sticky_notes, orphans, filter_input, previews, win, mouse,
                 disk, issued, moves, faults, steps, log>>

NextRoundTrip == RoundTripSave \/ RoundTripLoad

SpecRoundTrip == InitRoundTrip /\ [][NextRoundTrip]_vars

\* ------------------------------------------------------------------------
\* _load_notes, from any file
\* ------------------------------------------------------------------------
NoIdObject == [t |-> "object", hasId |-> FALSE, fields |-> NoteRecord(0, <<>>, <<>>, 0, 0, 0, 0)]

Scalar == [t |-> "scalar", hasId |-> FALSE, fields |-> NoteRecord(0, <<>>, <<>>, 0, 0, 0, 0)]

Elements ==
    {JsonObject(r) : r \in UNION {RecordsOf(i) : i \in NoteIds}} \cup {NoIdObject, Scalar}

Arrays == UNION { [1..n -> Elements] : n \in 0..MaxItems }

\* what may be found at NOTES_FILE
Files ==
    { FileMissing, FileGarbage, FileUnreadable }
    \cup { FileJson([t |-> "array", items |-> a]) : a \in Arrays }
    \cup { FileJson([t |-> t, items |-> <<>>]) : t \in {"number", "null", "string", "object"} }
    \cup { FileJson([t |-> t, items |-> <<Scalar>>]) : t \in {"string", "object"} }

\* SideToolbarApp.__init__ up to its call of _load_notes
InitLoad ==
    /\ disk \in Files
    /\ notes = <<>>
    /\ heap = <<>>
    /\ open_sticky_notes = <<>>
    /\ orphans = {}
    /\ filter_input = <<>>
    /\ previews = <<>>
    /\ win = IdleWindow(Rect(DefaultX, DefaultY, DefaultWidth, DefaultHeight))
    /\ mouse = NoMouse
    /\ pc = "init"
    /\ issued = {}
    /\ moves = 0
    /\ faults = 0
    /\ steps = 0
    /\ op = Operation("init", 0)
    /\ log = <<>>

\* self._load_notes() in SideToolbarApp.__init__
LoadStep ==
    /\ pc = "init"
    /\ notes' = LoadNotes(disk).notes
    /\ heap' = LoadNotes(disk).heap
    /\ pc' = Started(LoadNotes(disk))
    /\ issued' = Keys(notes')
    /\ op' = Operation("main", 0)
    /\ UNCHANGED <<open_sticky_notes, orphans, filter_input, previews, win, mouse,
                 disk, moves, faults, steps, log>>

NextLoad == LoadStep

SpecLoad == InitLoad /\ [][NextLoad]_vars

\* ------------------------------------------------------------------------
\* _handle_note_update called with any id and any record
\* ------------------------------------------------------------------------
\* the stores the toolbar may hold when an update arrives
UpdateStores ==
    {st \in Stores : \A i \in DOMAIN st.notes :
                        /\ st.heap[st.notes[i].ref].x = DefaultX
                        /\ st.heap[st.notes[i].ref].width = DefaultWidth}

\* a window open on every note of the store
AllOpen(d, hp) ==
    [i \in DOMAIN d |-> [key |-> d[i].key,
                         ref |-> NewWindow(d[i].key, d[i].ref, hp[d[i].ref])]]

\* the records a window may send: its note edited, or moved and resized
GivenRecords(id) ==
    { NoteRecord(id, <<"A", "b">>, toHtml(<<"A", "b">>), DefaultX, DefaultY,
                 DefaultWidth, DefaultHeight),
      NoteRecord(id, NewNoteTitle, <<>>, 110, 105, MinimumWidth, MinimumHeight) }

\* a reference no note dict of the store has
NewRef == MaxNotes + 1

Update(note_id, note_data) == [name |-> "update", id |-> note_id, note_data |-> note_data]

InitUpdate ==
    /\ \E st \in UpdateStores :
          /\ notes = st.notes
          /\ heap = st.heap
          /\ open_sticky_notes \in {<<>>, AllOpen(st.notes, st.heap)}
    /\ orphans = {}
    /\ filter_input \in Filters
    /\ previews = Rendered(notes, heap, filter_input)
    /\ win = IdleWindow(Rect(DefaultX, DefaultY, DefaultWidth, DefaultHeight))
    /\ mouse = NoMouse
    /\ disk = FileJson(JsonDump(Values(notes, heap)))
    /\ pc = "update"
    /\ issued = Keys(notes)
    /\ moves = 0
    /\ faults = 0
    /\ steps = 0
    /\ op = Operation("main", 0)
    /\ log = <<>>

\* note_updated delivered with a dict of the store
UpdateWithStored ==
    /\ pc = "update"
    /\ \E note_id \in NoteIds, i \in DOMAIN notes, io \in WritePlans(1) :
          Becomes(HandleNoteUpdate(State(io), note_id, notes[i].ref),
                  Update(note_id, heap[notes[i].ref]))
    /\ pc' = "updated"
    /\ UNCHANGED moves

\* note_updated delivered with a dict the store does not hold
UpdateWithNew ==
    /\ pc = "update"
    /\ \E note_id \in NoteIds, io \in WritePlans(1) :
          \E rec \in GivenRecords(note_id) :
             Becomes(HandleNoteUpdate([State(io) EXCEPT !.heap = (NewRef :> rec) @@ @],
                                      note_id, NewRef),
                     Update(note_id, rec))
    /\ pc' = "updated"
    /\ UNCHANGED moves

NextUpdate == UpdateWithStored \/ UpdateWithNew

SpecUpdate == InitUpdate /\ [][NextUpdate]_vars

\* ------------------------------------------------------------------------
\* A note window under the mouse
\* ------------------------------------------------------------------------
\* the geometries the window may have when the mouse comes to it: the default
\* one, the minimum size, and just above it
StartGeometries ==
    { Rect(DefaultX, DefaultY, DefaultWidth, DefaultHeight),
      Rect(DefaultX, DefaultY, MinimumWidth, MinimumHeight),
      Rect(DefaultX, DefaultY, MinimumWidth + 10, MinimumHeight + 5) }

\* where in a window w wide and h high the user may press: the four corners
\* and the four edges (the top ones lie in the title bar), the middle of the
\* title bar, the padding beyond the grip, the editor
Spots(w, h) ==
    { <<4, 4>>, <<w \div 2, 4>>, <<w - 4, 4>>,
      <<4, 20>>, <<w \div 2, 20>>, <<w - 4, 20>>,
      <<4, h \div 2>>, <<9, h \div 2>>, <<w \div 2, h \div 2>>, <<w - 4, h \div 2>>,
      <<4, h - 4>>, <<w \div 2, h - 4>>, <<w - 4, h - 4>> }

\* how far the cursor travels between two move events
MouseDeltas == { <<10, 5>>, <<-10, -5>>, <<300, 200>> }

Buttons == {"left", "right"}

InitMouse ==
    /\ notes = <<>>
    /\ heap = <<>>
    /\ open_sticky_notes = <<>>
    /\ orphans = {}
    /\ filter_input = <<>>
    /\ previews = <<>>
    /\ \E rect \in StartGeometries : win = IdleWindow(rect)
    /\ mouse = NoMouse
    /\ disk = FileMissing
    /\ pc = "running"
    /\ issued = {}
    /\ moves = 0
    /\ faults = 0
    /\ steps = 0
    /\ op = Operation("show", 0)
    /\ log = <<>>

\* the frame of a mouse event: one more event, nothing of the toolbar touched
MouseEvent(name) ==
    /\ steps < MaxEvents
    /\ steps' = steps + 1
    /\ op' = Operation(name, 0)
    /\ UNCHANGED <<notes, heap, open_sticky_notes, orphans, filter_input, previews,
                   disk, pc, issued, moves, faults, log>>

\* a button pressed: over the window when no button is held (the widget under
\* the cursor then receives the events until the buttons are up), where the
\* cursor is when another button is held already
MousePress ==
    /\ MouseEvent("press")
    /\ \E button \in Buttons \ mouse.buttons :
          IF mouse.buttons = {}
          THEN \E pos \in Spots(win.width, win.height) :
                  LET global_pos == <<win.x + pos[1], win.y + pos[2]>>
                      widget == WidgetAt(pos, win.width, win.height)
                  IN  /\ win' = DeliverPress(win, widget, button, pos, global_pos)
                      /\ mouse' = [buttons |-> {button}, pos |-> global_pos,
                                   grabber |-> widget]
          ELSE LET pos == <<mouse.pos[1] - win.x, mouse.pos[2] - win.y>>
               IN  /\ win' = DeliverPress(win, mouse.grabber, button, pos, mouse.pos)
                   /\ mouse' = [mouse EXCEPT !.buttons = @ \cup {button}]

\* the cursor moved with a button held
MouseMove ==
    /\ MouseEvent("move")
    /\ mouse.buttons # {}
    /\ \E delta \in MouseDeltas :
          LET global_pos == <<mouse.pos[1] + delta[1], mouse.pos[2] + delta[2]>>
          IN  /\ win' = DeliverMove(win, mouse.grabber, mouse.buttons, global_pos)
              /\ mouse' = [mouse EXCEPT !.pos = global_pos]

\* a button released
MouseRelease ==
    /\ MouseEvent("release")
    /\ \E button \in mouse.buttons :
          /\ win' = DeliverRelease(win, mouse.grabber)
          /\ mouse' = [mouse EXCEPT !.buttons = @ \ {button},
                                    !.grabber = IF mouse.buttons = {button} THEN "none" ELSE @]

NextMouse == MousePress \/ MouseMove \/ MouseRelease

SpecMouse == InitMouse /\ [][NextMouse]_vars

\* ------------------------------------------------------------------------
\* State functions the properties use
\* ------------------------------------------------------------------------
InStore(id) == HasKey(notes, id)

Registered(id) == HasKey(open_sticky_notes, id)

\* the records of the file, when it is a JSON array of objects
DiskRecords ==
    IF disk.kind = "json" /\ disk.doc.t = "array"
    THEN {disk.doc.items[i].fields : i \in DOMAIN disk.doc.items}
    ELSE {}

OnDisk(id) == \E r \in DiskRecords : r.id = id

StoreRecords == {heap[notes[i].ref] : i \in DOMAIN notes}

\* the record stored under the key id
Stored(id) == heap[Get(notes, id)]

LogHas(ev) == \E i \in DOMAIN log : log[i].ev = ev

\* every file write of the last operation succeeded
WritesSucceeded == ~LogHas("save_failed")

\* ------------------------------------------------------------------------
\* Properties
\* ------------------------------------------------------------------------

\* C1 (as claimed): once a confirmed delete from a note's toolbar preview has
\* finished (its file writes having succeeded), the note's id is absent from
\* the store, from the open-window registry and from the file.
C1_DeletedFromToolbarIsGone ==
    (op.name = "delete_toolbar" /\ WritesSucceeded)
        => (~InStore(op.id) /\ ~Registered(op.id) /\ ~OnDisk(op.id))

\* C2 (as claimed): once a confirmed "Delete Note" in a note window has
\* finished (its file writes having succeeded), the note's record is neither
\* in the store nor in the file.
C2_DeletedFromWindowIsGone ==
    (op.name = "delete_window" /\ WritesSucceeded)
        => (~InStore(op.id) /\ ~OnDisk(op.id))

MutatingOps == {"add", "edit", "close", "delete_toolbar", "delete_window", "toolbar_close"}

\* C3: when the file writes of an operation that mutates a record succeed,
\* the file is a JSON array whose records are exactly the records of the
\* in-memory store once the operation is complete.
C3_DiskEqualsStore ==
    (op.name \in MutatingOps /\ WritesSucceeded)
        => (disk.kind = "json" /\ disk.doc.t = "array" /\ DiskRecords = StoreRecords)

\* C3 witness: an edit made through the window's reference has been saved
\* while another note is in the store too.
C3_Witness ==
    /\ op.name = "edit"
    /\ WritesSucceeded
    /\ Len(notes) = 2
    /\ Stored(op.id).content # <<>>
    /\ DiskRecords = StoreRecords

\* C4: loading the file written by save() gives back the store: the same
\* keys, and for each key the same record.
C4_SaveLoadIdentity ==
    [][(pc = "load" /\ pc' # "load")
         => (pc' = "loaded" /\ StoreMap(notes', heap') = StoreMap(notes, heap))]_vars

\* C4 witness: a store of two notes, one of them edited, has been saved and
\* loaded.
C4_Witness ==
    /\ pc = "loaded"
    /\ Len(notes) = 2
    /\ \E i \in DOMAIN notes : heap[notes[i].ref].content # <<>>

\* a JSON array of objects each carrying an id
WellFormed(file) ==
    /\ file.kind = "json"
    /\ file.doc.t = "array"
    /\ \A i \in DOMAIN file.doc.items :
          file.doc.items[i].t = "object" /\ file.doc.items[i].hasId

\* C5: load() never fails the process and never loads a part of a file: the
\* constructor goes on to run; a file that is missing, unreadable, not JSON
\* or not an array of objects with an id leaves the store empty; a
\* well-formed file gives a store with a key for every id in it; and load
\* leaves the file as it was.
C5_LoadAllOrNothing ==
    /\ [](pc # "crashed")
    /\ [](pc = "running" =>
            IF WellFormed(disk)
            THEN Keys(notes) = {disk.doc.items[i].fields.id : i \in DOMAIN disk.doc.items}
            ELSE notes = <<>>)
    /\ [][disk' = disk]_vars

\* C5 witness: the file was an array whose first element is a note and whose
\* second is not, and the store is empty.
C5_Witness ==
    /\ pc = "running"
    /\ disk.kind = "json"
    /\ disk.doc.t = "array"
    /\ Len(disk.doc.items) = 2
    /\ Subscriptable(disk.doc.items[1])
    /\ ~Subscriptable(disk.doc.items[2])
    /\ notes = <<>>

\* the last file write of the last operation succeeded
LastWriteSucceeded ==
    \E i \in DOMAIN log :
        /\ log[i].ev = "save"
        /\ \A j \in DOMAIN log : j > i => log[j].ev # "save_failed"

\* a step of the operation called name
Did(name) == steps' = steps + 1 /\ op'.name = name

\* what the handler of the step's operation leaves when every write succeeds
Unfailing ==
    LET S == State(<<>>)
        id == op'.id
    IN  CASE op'.name = "add" -> AddNewNote(S, id)
          [] op'.name = "edit" -> OnTextChanged(S, id, Get(open_sticky_notes', id).text)
          [] op'.name = "close" -> CloseRegistered(S, id)
          [] op'.name = "delete_window" -> DeleteNote(S, Get(open_sticky_notes, id))
          [] op'.name = "delete_toolbar" -> DeleteNoteFromToolbar(S, id)
          [] OTHER -> ToolbarCloseEvent(S)

\* C6: a failed file write is swallowed and changes nothing in memory: an
\* operation during which a write fails leaves the store and the registry it
\* leaves when its writes succeed; and after earlier failures, an operation
\* whose last write succeeds leaves the file equal to the in-memory store.
C6_FailedWriteKeepsStore ==
    /\ [][(steps' = steps + 1 /\ op'.name \in MutatingOps /\ faults' > faults)
            => \A U \in {Unfailing} :
                   /\ notes' = U.notes
                   /\ StoreMap(notes', heap') = StoreMap(U.notes, U.heap)
                   /\ open_sticky_notes' = U.reg]_vars
    /\ []((faults > 0 /\ op.name \in MutatingOps /\ LastWriteSucceeded)
            => disk = FileJson(JsonDump(Values(notes, heap))))

\* C6 witness: a write failed and left the file behind the store (or
\* truncated); the store kept the note, and the write of a later operation
\* has brought the file back to the store.
C6_Witness ==
    /\ faults > 0
    /\ WritesSucceeded
    /\ op.name = "edit"
    /\ notes # <<>>
    /\ disk = FileJson(JsonDump(Values(notes, heap)))

\* C7: identifiers are unique and immutable: the keys of the store are
\* distinct, each key is the id of its record, no step changes the id of a
\* record, and the id of a note just added was never a key before.
C7_IdsUniqueImmutable ==
    /\ [](/\ \A i, j \in DOMAIN notes : notes[i].key = notes[j].key => i = j
          /\ \A i \in DOMAIN notes : heap[notes[i].ref].id = notes[i].key)
    /\ [][/\ \A r \in (DOMAIN heap) \cap (DOMAIN heap') : heap'[r].id = heap[r].id
          /\ \A k \in Keys(notes) \cap Keys(notes') :
                heap'[Get(notes', k)].id = heap[Get(notes, k)].id
          /\ Did("add") => op'.id \notin issued]_vars

\* C7 witness: a second note has been added next to a note that was edited.
C7_Witness ==
    /\ op.name = "add"
    /\ Len(notes) = 2
    /\ \E i \in DOMAIN notes : heap[notes[i].ref].content # <<>>

\* C8 (as claimed): the title of every record in the store is the title
\* derived from its content, a record just added included.
C8_TitleDerivedFromContent ==
    \A i \in DOMAIN notes :
        heap[notes[i].ref].title = DeriveTitle(heap[notes[i].ref].id, heap[notes[i].ref].content)

\* C9 (as claimed): after a content edit the record's x, y, width and height
\* are the window's position and size.
C9_EditStoresGeometry ==
    op.name = "edit"
        => (InStore(op.id) /\ RecGeo(Stored(op.id)) = WinGeo(Get(open_sticky_notes, op.id)))

\* C9 (amended): a content edit re-derives the record's content and title and
\* leaves its x, y, width and height as they were.
C9_EditKeepsGeometry ==
    [][Did("edit")
        => LET w == Get(open_sticky_notes', op'.id)
               r == w.note_data
           IN  /\ HasKey(notes', op'.id)
               /\ Get(notes', op'.id) = r
               /\ heap'[r].content = toHtml(w.text)
               /\ heap'[r].title = DeriveTitle(op'.id, heap'[r].content)
               /\ RecGeo(heap'[r]) = RecGeo(heap[r])]_vars

\* C9 witness: a window was moved or resized and its text then edited; the
\* record still has the geometry it had.
C9_Witness ==
    /\ op.name = "edit"
    /\ InStore(op.id)
    /\ RecGeo(Stored(op.id)) # WinGeo(Get(open_sticky_notes, op.id))

\* the windows the last operation hid, as positions of the log
Hidden == {j \in DOMAIN log : log[j].ev = "hide"}

\* C10 (as claimed): after a note window is closed, the record in the store
\* and the record in the file carry the geometry the window had, and the
\* update carrying it was delivered before the window was hidden.
C10_CloseStoresGeometryOnDisk ==
    op.name \in {"close", "toolbar_close"}
        => \A j \in Hidden :
              /\ InStore(log[j].id)
              /\ RecGeo(Stored(log[j].id)) = log[j].geo
              /\ \E r \in DiskRecords : r.id = log[j].id /\ RecGeo(r) = log[j].geo
              /\ \E i \in 1..(j - 1) : log[i] = Event("note_updated", log[j].id, log[j].geo)

\* C10 (amended): after a note window is closed, the record in the store
\* carries the geometry the window had, the update carrying it was delivered
\* before the window was hidden, and the record in the file carries it too
\* when the last file write of the operation succeeded.
C10_CloseKeepsGeometry ==
    op.name \in {"close", "toolbar_close"}
        => \A j \in Hidden :
              /\ InStore(log[j].id)
              /\ RecGeo(Stored(log[j].id)) = log[j].geo
              /\ WinGeo(Get(open_sticky_notes, log[j].id)) = log[j].geo
              /\ ~Get(open_sticky_notes, log[j].id).visible
              /\ LastWriteSucceeded
                    => \E r \in DiskRecords : r.id = log[j].id /\ RecGeo(r) = log[j].geo
              /\ \E i \in 1..(j - 1) : log[i] = Event("note_updated", log[j].id, log[j].geo)

\* C10 witness: a window that was resized has been closed, and store and file
\* carry its size.
C10_Witness ==
    /\ op.name = "close"
    /\ WritesSucceeded
    /\ InStore(op.id)
    /\ Stored(op.id).width # DefaultWidth
    /\ RecGeo(Stored(op.id)) = WinGeo(Get(open_sticky_notes, op.id))
    /\ \E r \in DiskRecords : r.id = op.id /\ RecGeo(r) = WinGeo(Get(open_sticky_notes, op.id))

\* the writes of the store, the registry and the file a step may make
Untouched ==
    /\ notes' = notes
    /\ StoreMap(notes', heap') = StoreMap(notes, heap)
    /\ open_sticky_notes' = open_sticky_notes
    /\ disk' = disk

LogCount(ev) == Cardinality({i \in DOMAIN log : log[i].ev = ev})

\* C11: there is never a visible note window besides the one the registry
\* holds for its id (so at most one per id); openNote(id) on a registered,
\* visible window creates none and leaves store, registry and file as they
\* were; openNote(id) otherwise, id in the store, creates exactly one visible
\* window, bound to the stored record, registered under id, the other
\* entries of the registry unchanged.
C11_NoDuplicateWindow ==
    /\ [](orphans = {} /\ Cardinality(Keys(open_sticky_notes)) = Len(open_sticky_notes))
    /\ [][(Did("open") /\ VisibleWindow(op'.id))
            => (Untouched /\ LogCount("show")' = 0)]_vars
    /\ [][(Did("open") /\ ~VisibleWindow(op'.id) /\ InStore(op'.id))
            => /\ LogCount("show")' = 1
               /\ HasKey(open_sticky_notes', op'.id)
               /\ Get(open_sticky_notes', op'.id).visible
               /\ Get(open_sticky_notes', op'.id).note_data = Get(notes, op'.id)
               /\ Get(open_sticky_notes', op'.id).text = toPlainText(Stored(op'.id).content)
               /\ \A k \in Keys(open_sticky_notes) \ {op'.id} :
                     /\ HasKey(open_sticky_notes', k)
                     /\ Get(open_sticky_notes', k) = Get(open_sticky_notes, k)
               /\ notes' = notes /\ disk' = disk]_vars

\* C11 witness: a stored note has been opened while another note's window
\* is open; both windows are visible.
C11_Witness ==
    /\ op.name = "open"
    /\ LogHas("show")
    /\ VisibleWindow(op.id)
    /\ VisibleCount = 2

\* what a step of addNote() does to the store and the registry: exactly one
\* record added, under an id never used before, with empty content and the
\* default geometry; every other record unchanged; _save_notes called before
\* the window is shown; the new id registered with a visible window
AddedOne ==
    /\ op'.id \notin issued
    /\ Keys(notes') = Keys(notes) \cup {op'.id}
    /\ Len(notes') = Len(notes) + 1
    /\ heap'[Get(notes', op'.id)].id = op'.id
    /\ heap'[Get(notes', op'.id)].content = <<>>
    /\ RecGeo(heap'[Get(notes', op'.id)]) = <<100, 100, 400, 300>>
    /\ \A k \in Keys(notes) : heap'[Get(notes', k)] = heap[Get(notes, k)]
    /\ \E i, j \in DOMAIN log' :
          /\ i < j
          /\ log'[i].ev \in {"save", "save_failed"}
          /\ log'[j] = Event("show", op'.id, <<100, 100, 400, 300>>)
    /\ HasKey(open_sticky_notes', op'.id)
    /\ Get(open_sticky_notes', op'.id).visible

\* C12 (as claimed): addNote() adds exactly one record with a fresh id, empty
\* content and the default geometry, leaves every other record unchanged,
\* has written the store to the file before the window is opened, and ends
\* with a visible window registered for the new id.
C12_AddNoteWritesFile ==
    [][Did("add")
        => /\ AddedOne
           /\ disk' = FileJson(JsonDump(Values(notes', heap')))]_vars

\* C12 (amended): addNote() adds exactly one record with a fresh id, empty
\* content and the default geometry, leaves every other record unchanged,
\* calls _save_notes before the window is opened, the file holding the store
\* with the new record when that write succeeds, and ends with a visible
\* window registered for the new id.
C12_AddNote ==
    [][Did("add")
        => /\ AddedOne
           /\ LogCount("save_failed")' = 0
                 => disk' = FileJson(JsonDump(Values(notes', heap')))]_vars

\* C12 witness: a second note has been added next to an existing one; it is
\* on disk and its window is open.
C12_Witness ==
    /\ op.name = "add"
    /\ Len(notes) = 2
    /\ WritesSucceeded
    /\ OnDisk(op.id)
    /\ VisibleWindow(op.id)
    /\ Stored(op.id).content = <<>>

\* the close-time update of every window that was visible precedes the last
\* event of the operation, which is the final _save_notes
ClosedThenSaved ==
    /\ log'[Len(log')].ev \in {"save", "save_failed"}
    /\ \A k \in Keys(open_sticky_notes) :
          Get(open_sticky_notes, k).visible
              => \E i \in 1..(Len(log') - 1) :
                    log'[i] = Event("note_updated", k, WinGeo(Get(open_sticky_notes, k)))

NoneVisible == orphans = {} /\ VisibleCount = 0

\* C13 (as claimed): after toolbar close no note window is visible, every
\* window that was visible delivered its close-time geometry update before
\* the final save, and the file equals the in-memory store.
C13_ToolbarCloseFileEqualsStore ==
    [][Did("toolbar_close")
        => /\ NoneVisible'
           /\ ClosedThenSaved
           /\ disk' = FileJson(JsonDump(Values(notes', heap')))]_vars

\* C13 (amended): after toolbar close no note window is visible, every window
\* that was visible delivered its close-time geometry update before the final
\* save, and the file equals the in-memory store when that final save
\* succeeded.
C13_ToolbarCloseSavesLast ==
    [][Did("toolbar_close")
        => /\ NoneVisible'
           /\ ClosedThenSaved
           /\ log'[Len(log')].ev = "save"
                 => disk' = FileJson(JsonDump(Values(notes', heap')))]_vars

\* C13 witness: the toolbar was closed with two note windows open; both were
\* hidden, and the file holds the store.
C13_Witness ==
    /\ op.name = "toolbar_close"
    /\ LogCount("hide") = 2
    /\ LogCount("note_updated") = 2
    /\ NoneVisible
    /\ disk = FileJson(JsonDump(Values(notes, heap)))

\* C14: a deletion notification (note_deleted of a window, delete_note_signal
\* of a preview) is only ever sent after the answer Yes to the question about
\* that note; after the answer No the store, the registry with the windows'
\* visibility, and the file are as they were.
C14_DeleteNeedsYes ==
    /\ [](\A i \in DOMAIN log :
             log[i].ev \in {"note_deleted", "delete_note_signal"}
                => \E j \in 1..(i - 1) : log[j] = Event("answered_yes", log[i].id, NoGeo))
    /\ [][(steps' = steps + 1 /\ LogCount("answered_no")' > 0)
            => /\ Untouched
               /\ orphans' = orphans
               /\ log' = <<Event("answered_no", op'.id, NoGeo)>>]_vars

\* C14 witness: the user asked to delete a note from its open window and
\* answered No; the note and its visible window are still there.
C14_Witness ==
    /\ op.name = "decline_window"
    /\ log = <<Event("answered_no", op.id, NoGeo)>>
    /\ InStore(op.id)
    /\ VisibleWindow(op.id)
    /\ OnDisk(op.id)

\* the notes whose title contains the filter text, case-insensitively
Matching ==
    {k \in Keys(notes) :
        filter_input = <<>> \/ Contains(Lower(filter_input), Lower(Stored(k).title))}

\* C16: the rendered preview list holds exactly one entry, carrying the
\* note's title, for each note whose title contains the filter text
\* case-insensitively (every note when the filter is empty), no other entry,
\* and the entries are in case-insensitive title order.
C16_PreviewsFilteredSorted ==
    /\ {previews[i].note_id : i \in DOMAIN previews} = Matching
    /\ Len(previews) = Cardinality(Matching)
    /\ \A i \in DOMAIN previews : previews[i].note_title = Stored(previews[i].note_id).title
    /\ \A i, j \in DOMAIN previews :
          i < j => ~LessStr(Lower(previews[j].note_title), Lower(previews[i].note_title))

\* C16 witness: with "A" typed into the filter box and a second note added,
\* the list shows the note titled "a" and not the one titled "New Note".
C16_Witness ==
    /\ filter_input = <<"A">>
    /\ op.name = "add"
    /\ Len(notes) = 2
    /\ previews = <<Preview(1, <<"a">>)>>

\* what _handle_note_update(id, record) does in memory: the store maps id to
\* the given record, every other entry and the registry are as they were,
\* _save_notes and then _display_notes were called, and the preview list is
\* the rendering of the updated store
Overwritten ==
    /\ Keys(notes') = Keys(notes) \cup {op'.id}
    /\ heap'[Get(notes', op'.id)] = op'.note_data
    /\ \A k \in Keys(notes) \ {op'.id} :
          Get(notes', k) = Get(notes, k) /\ heap'[Get(notes', k)] = heap[Get(notes, k)]
    /\ open_sticky_notes' = open_sticky_notes
    /\ orphans' = orphans
    /\ Len(log') = 2
    /\ log'[1].ev \in {"save", "save_failed"}
    /\ log'[2].ev = "display"
    /\ previews' = Rendered(notes', heap', filter_input')

\* C15 (as claimed): after onNoteUpdated(id, record) the store maps id to the
\* given record, every other record and the registry are unchanged, the file
\* has been rewritten from the updated store, and the preview list has been
\* re-rendered from it.
C15_UpdateRewritesFile ==
    [][(pc = "update" /\ pc' = "updated")
        => /\ Overwritten
           /\ disk' = FileJson(JsonDump(Values(notes', heap')))]_vars

\* C15 (amended): after onNoteUpdated(id, record) the store maps id to the
\* given record, every other record and the registry are unchanged, the
\* preview list has been re-rendered from the updated store, and the file has
\* been rewritten from it when the write succeeded.
C15_UpdateOverwritesOne ==
    [][(pc = "update" /\ pc' = "updated")
        => /\ Overwritten
           /\ log'[1].ev = "save"
                 => disk' = FileJson(JsonDump(Values(notes', heap')))]_vars

\* C15 witness: an update carrying a new record has replaced one of two
\* stored records; the other one and the open windows are still there, and
\* the file and the list show the new title.
C15_Witness ==
    /\ pc = "updated"
    /\ Len(notes) = 2
    /\ Len(open_sticky_notes) = 2
    /\ Get(notes, op.id) = NewRef
    /\ Stored(op.id).title = <<"A", "b">>
    /\ WritesSucceeded
    /\ \E r \in DiskRecords : r.id = op.id /\ r.title = <<"A", "b">>
    /\ \E i \in DOMAIN previews : previews[i] = Preview(op.id, <<"A", "b">>)

\* the last event was a move handled by the resizing branch of the window
ResizeMoved == op.name = "move" /\ win.resizing /\ mouse.buttons = {"left"}

\* the cumulative cursor delta of the gesture, and its start geometry
CumDx == mouse.pos[1] - win.start_pos[1][1]

CumDy == mouse.pos[2] - win.start_pos[1][2]

StartRect == win.start_geometry[1]

\* C17: after a move of a resize from the bottom-right corner with cumulative
\* delta (dx, dy), dx > 0 and dy > 0, the width is the start width + dx, the
\* height the start height + dy, and x and y are the start ones; after a move
\* of any resize whose edge-set has neither left nor top, x and y are the
\* start ones.
C17_BottomRightResize ==
    /\ (ResizeMoved /\ win.resizing_from = "bottom_right" /\ CumDx > 0 /\ CumDy > 0)
          => GeometryOf(win) = Rect(StartRect.x, StartRect.y,
                                    StartRect.width + CumDx, StartRect.height + CumDy)
    /\ (ResizeMoved /\ EdgesOf(win.resizing_from) \cap {"left", "top"} = {})
          => (win.x = StartRect.x /\ win.y = StartRect.y)

\* C17 witness: the bottom-right corner of a default-sized window was dragged
\* out by two move events.
C17_Witness ==
    /\ ResizeMoved
    /\ win.resizing_from = "bottom_right"
    /\ CumDx = 310 /\ CumDy = 205
    /\ GeometryOf(win) = Rect(DefaultX, DefaultY, DefaultWidth + 310, DefaultHeight + 205)

\* C18: after a move of a resize from the top-left corner with cumulative
\* delta (dx, dy), the start width - dx and the start height - dy above the
\* minimum, the geometry is x = start x + dx, y = start y + dy,
\* width = start width - dx, height = start height - dy.
C18_TopLeftResize ==
    (/\ ResizeMoved
     /\ win.resizing_from = "top_left"
     /\ StartRect.width - CumDx > MinimumWidth
     /\ StartRect.height - CumDy > MinimumHeight)
        => GeometryOf(win) = Rect(StartRect.x + CumDx, StartRect.y + CumDy,
                                  StartRect.width - CumDx, StartRect.height - CumDy)

\* C18 witness: the top-left corner of a default-sized window was dragged
\* inwards by (10, 5), the window staying above its minimum size.
C18_Witness ==
    /\ ResizeMoved
    /\ win.resizing_from = "top_left"
    /\ CumDx = 10 /\ CumDy = 5
    /\ GeometryOf(win) = Rect(DefaultX + 10, DefaultY + 5, DefaultWidth - 10, DefaultHeight - 5)

\* C19 (as claimed): after every move of a resize whose edge-set has left,
\* x + width is the start x + start width, and of one whose edge-set has top,
\* y + height is the start y + start height, whatever the start size (at or
\* above the minimum) and the cursor delta.
C19_OppositeEdgeFixed ==
    /\ (ResizeMoved /\ "left" \in EdgesOf(win.resizing_from))
          => win.x + win.width = StartRect.x + StartRect.width
    /\ (ResizeMoved /\ "top" \in EdgesOf(win.resizing_from))
          => win.y + win.height = StartRect.y + StartRect.height

\* the step is a content-change notification that follows one of the same
\* window with the same content
SameEditAgain ==
    /\ Did("edit")
    /\ op = Operation("edit", op'.id)
    /\ Get(open_sticky_notes', op'.id).text = Get(open_sticky_notes, op'.id).text

\* the record of a content-change notification whose plain text is empty
\* after trimming carries the placeholder title
BlankGivesPlaceholder ==
    (Did("edit") /\ Strip(toPlainText(heap'[Get(notes', op'.id)].content)) = <<>>)
        => heap'[Get(notes', op'.id)].title = Placeholder(op'.id)

\* C20 (as claimed): a content-change notification that follows one with the
\* same content leaves the record, the store and the file as the first left
\* them; content whose plain text is empty after trimming derives the
\* placeholder title.
C20_SecondEditChangesNothing ==
    /\ [][SameEditAgain
            => /\ notes' = notes
               /\ StoreMap(notes', heap') = StoreMap(notes, heap)
               /\ disk' = disk]_vars
    /\ [][BlankGivesPlaceholder]_vars

\* C20 (amended): a content-change notification that follows one with the
\* same content leaves the record and the store as the first left them, and
\* the file too when the writes of both succeeded; content whose plain text
\* is empty after trimming derives the placeholder title.
C20_TitleIdempotent ==
    /\ [][SameEditAgain
            => /\ notes' = notes
               /\ StoreMap(notes', heap') = StoreMap(notes, heap)
               /\ (WritesSucceeded /\ WritesSucceeded') => disk' = disk]_vars
    /\ [][BlankGivesPlaceholder]_vars

\* C20 witness: the editor of the saved note was left blank in two
\* notifications in a row, the write of the first failing; the record carries
\* the placeholder title and the second write has brought it to the file.
C20_Witness ==
    /\ op.name = "edit"
    /\ steps = 3
    /\ faults = 1
    /\ WritesSucceeded
    /\ moves = 0
    /\ issued = {1}
    /\ Get(open_sticky_notes, 1).text = <<" ", NL>>
    /\ Stored(1).title = Placeholder(1)
    /\ \E r \in DiskRecords : r.title = Placeholder(1)

\* the states of the window: the title bar holds a drag anchor; the window
\* holds the resizing flag
DraggingTitle == win.old_pos # None

Resizing == win.resizing

\* the step is a left-button press landing on the title bar, no button held
\* before it
TitleBarPressed ==
    /\ op'.name = "press"
    /\ mouse.buttons = {}
    /\ mouse'.buttons = {"left"}
    /\ mouse'.grabber = "title_bar"

\* the step is a move event of a gesture begun by a left press on the title bar
TitleBarDragged ==
    /\ op'.name = "move"
    /\ mouse.grabber = "title_bar"
    /\ mouse.buttons = {"left"}
    /\ DraggingTitle

\* C21 (as claimed): the window is never dragging-title and resizing at once;
\* every left-button press on the title bar, wherever on it, leaves the window
\* in dragging-title only; the move events that follow translate the window
\* by the cursor delta and leave its width and height alone.
C21_DragXorResize ==
    /\ [](~(DraggingTitle /\ Resizing))
    /\ [][TitleBarPressed => (DraggingTitle' /\ ~Resizing')]_vars
    /\ [][TitleBarDragged =>
             /\ win'.width = win.width
             /\ win'.height = win.height
             /\ win'.x = win.x + (mouse'.pos[1] - mouse.pos[1])
             /\ win'.y = win.y + (mouse'.pos[2] - mouse.pos[2])]_vars

\* the position in the window of the press the step delivers
PressPos == <<mouse'.pos[1] - win.x, mouse'.pos[2] - win.y>>

\* farther than the grip from every edge of the window
BeyondGrip(pos) ==
    /\ pos[1] > RESIZE_GRIP_SIZE
    /\ pos[1] < win.width - RESIZE_GRIP_SIZE
    /\ pos[2] > RESIZE_GRIP_SIZE
    /\ pos[2] < win.height - RESIZE_GRIP_SIZE

\* nothing recorded by the window's press handler
ResizeCleared ==
    /\ ~win.resizing
    /\ win.resizing_from = "None"
    /\ win.start_pos = None
    /\ win.start_geometry = None

\* C22: resizing is true exactly when resizing_from is set, and then start_pos
\* and start_geometry are recorded; a left-button press farther than
\* RESIZE_GRIP_SIZE from every edge does not enter resizing; a move event
\* arriving while the window is not resizing leaves the size alone, and the
\* position too unless the title bar is being dragged; after every release
\* the window is idle, with resizing_from, start_pos and start_geometry
\* cleared.
C22_ResizeStateMachine ==
    /\ [](win.resizing <=> win.resizing_from # "None")
    /\ [](win.resizing => (win.start_pos # None /\ win.start_geometry # None))
    /\ [][(op'.name = "press" /\ "left" \in mouse'.buttons \ mouse.buttons
                /\ BeyondGrip(PressPos))
             => ~win'.resizing]_vars
    /\ [][(op'.name = "move" /\ ~win.resizing)
             => /\ win'.width = win.width /\ win'.height = win.height
                /\ ~DraggingTitle => (win'.x = win.x /\ win'.y = win.y)]_vars
    /\ [][op'.name = "release" => (ResizeCleared' /\ ~DraggingTitle')]_vars

\* C22 witness: the bottom-right corner of a default-sized window was dragged
\* out by (10, 5) and the button released; the window is idle at its new size.
C22_Witness ==
    /\ op.name = "release"
    /\ mouse.buttons = {}
    /\ ResizeCleared
    /\ GeometryOf(win) = Rect(DefaultX, DefaultY, DefaultWidth + 10, DefaultHeight + 5)

\* the step is a move event the resizing branch of the window handles
ResizeMoving == op'.name = "move" /\ win.resizing /\ mouse.buttons = {"left"}

\* C23: every move event of a resize gesture leaves the recorded start
\* position, start geometry and edge-set as the press set them, and gives the
\* window the geometry computed from them and the cursor position alone; so
\* the geometry after a move does not depend on the moves before it, and with
\* the cursor back at the press position it is the start geometry.
C23_PathIndependent ==
    /\ [][ResizeMoving =>
             /\ win'.start_pos = win.start_pos
             /\ win'.start_geometry = win.start_geometry
             /\ win'.resizing_from = win.resizing_from
             /\ GeometryOf(win') = ResizeGeometry(win.start_geometry[1], win.resizing_from,
                                                  mouse'.pos[1] - win.start_pos[1][1],
                                                  mouse'.pos[2] - win.start_pos[1][2])]_vars
    /\ []((ResizeMoved /\ CumDx = 0 /\ CumDy = 0) => GeometryOf(win) = StartRect)

\* C23 witness: the top-left corner of a window just above its minimum size
\* was dragged away by one move event and back to where it was pressed by the
\* next.
C23_Witness ==
    /\ ResizeMoved
    /\ win.resizing_from = "top_left"
    /\ CumDx = 0 /\ CumDy = 0
    /\ steps = 3
    /\ GeometryOf(win) = Rect(DefaultX, DefaultY, MinimumWidth + 10, MinimumHeight + 5)

\* C24: in every state of a note window, whatever edge was pressed and
\* however the cursor moved, the width is at least 200 and the height at
\* least 150.
C24_MinimumSize == win.width >= MinimumWidth /\ win.height >= MinimumHeight

\* C24 witness: the bottom-right corner was dragged inwards to where the
\* window would be smaller than the minimum both ways, and the window has
\* exactly the minimum size.
C24_Witness ==
    /\ ResizeMoved
    /\ win.resizing_from = "bottom_right"
    /\ StartRect.width + CumDx < MinimumWidth
    /\ StartRect.height + CumDy < MinimumHeight
    /\ win.width = MinimumWidth
    /\ win.height = MinimumHeight

\* every registered window is visible
AllRegisteredVisible ==
    \A i \in DOMAIN open_sticky_notes : open_sticky_notes[i].ref.visible

\* every registered id is a key of the store
AllRegisteredStored ==
    \A i \in DOMAIN open_sticky_notes : InStore(open_sticky_notes[i].key)

C26_OpenMissingNote ==
    [][(Did("open") /\ ~HasKey(notes, op'.id) /\ ~VisibleWindow(op'.id))
          => /\ open_sticky_notes' = open_sticky_notes
             /\ orphans' = orphans
             /\ notes' = notes
             /\ heap' = heap
             /\ previews' = previews
             /\ disk' = disk
             /\ log' = <<Event("warning", op'.id, NoGeo)>>]_vars

\* C26 witness: a note was deleted and then asked for by its former id (an id
\* once issued that is no key of the store): nothing is registered, the file
\* has no such note, and the handler did nothing but give the warning.
C26_Witness ==
    /\ op.name = "open"
    /\ op.id \in issued
    /\ ~InStore(op.id)
    /\ ~OnDisk(op.id)
    /\ open_sticky_notes = <<>>
    /\ orphans = {}
    /\ log = <<Event("warning", op.id, NoGeo)>>
====
